---- MODULE Spec2Model ----
(***************************************************************************)
(* AsyncEventProcessor of flexprice/async_utils.py, the module that        *)
(* src/api/scripts/python/add_python_async.py writes (ASYNC_UTILS_CONTENT).*)
(*                                                                         *)
(* Threads: any number of submitting threads (submit_event touches shared  *)
(* state only in put_nowait, so one call is one atomic step), one thread   *)
(* that owns the lifecycle (start / stop), and the worker threads spawned  *)
(* by start(), each running _process_queue.                                *)
(*                                                                         *)
(* A queue entry (event, api_instance, callback) is represented by the     *)
(* index, among the accepted submit_event calls, of the call that created  *)
(* it.  The variables calls, last_submit, transport_calls, callback_calls  *)
(* and busy_at_stop are history variables: they record what the callers,   *)
(* the transport and the callbacks observed.  One step of a worker is one  *)
(* access to shared state: the test of _running, the queue poll, or one    *)
(* iteration of the retry loop (which touches only the worker's own entry).*)
(* In Spec and LiveSpec the backoff sleep is part of that iteration; in     *)
(* BackoffSpec it is a step of its own and its duration is recorded.        *)
(* SingleWorkerSpec is Spec for a processor constructed with workers = 1.   *)
(*                                                                         *)
(* PatchSpec models add_async_functionality, the function of the script    *)
(* that patches events_api.py, run repeatedly on the files of the SDK.      *)
(***************************************************************************)
EXTENDS Naturals, Sequences, FiniteSets

\* ---- bounds of the model ----
max_retries == 1
max_queue_size == 2
MaxItems == 2
MaxStarts == 2
\* the values of random.random() are the multiples k / JitterQuanta in [0, 1)
JitterQuanta == 4
\* the max_retries arguments the processor is constructed with in BackoffSpec
BackoffRetries == 3
\* the longest events_api.py, in parts, add_async_functionality is first run on
MaxParts == 3
\* the number of runs of add_async_functionality
MaxRuns == 3

\* ---- program constant: default of the `workers` parameter ----
workers == 2
\* ---- program constant: default of the `retry_delay` parameter, in seconds ----
retry_delay == 1

VARIABLES
    running,          \* self._running
    event_queue,      \* self.event_queue: the queued entries, oldest first
    unfinished_tasks, \* self.event_queue.unfinished_tasks
    worker_threads,   \* self._worker_threads
    pc,               \* per worker thread: its position in _process_queue / _process_event
    item,             \* per worker thread: the entry it holds (0: none)
    attempt,          \* per worker thread: local `attempt` of _process_event
    last_error,       \* per worker thread: local `last_error` of _process_event
    lpc,              \* the lifecycle thread: "idle" or inside stop() ("stop_join")
    starts,           \* number of start() calls made so far
    spawned,          \* number of threads created so far
    calls,            \* history: the arguments of the accepted submit_event calls, in order
    last_submit,      \* history: the arguments and return value of the latest submit_event call
    transport_calls,  \* history: per entry, the outcomes of api_instance.events_post
    callback_calls,   \* history: per entry, the arguments of each callback invocation
    busy_at_stop,     \* history: <<worker, entry>> of the listed workers that held an
                      \* entry when the stop() call now in progress began
    self_max_retries, \* self.max_retries
    backoff,          \* per worker thread: the time.sleep(delay) it is in before the
                      \* transport call of a retry, in ticks (0: not sleeping)
    self_workers,     \* self.workers
    events_api,       \* the content of EVENTS_API_FILE (NoFile: it does not exist)
    async_utils,      \* the content of ASYNC_UTILS_FILE (NoFile: it does not exist)
    patch_log         \* history: per run of add_async_functionality, its return value
                      \* and whether it wrote EVENTS_API_FILE

vars == <<running, event_queue, unfinished_tasks, worker_threads, pc, item, attempt,
          last_error, lpc, starts, spawned, calls, last_submit, transport_calls,
          callback_calls, busy_at_stop, self_max_retries, backoff, self_workers,
          events_api, async_utils, patch_log>>

\* the files add_async_functionality works on, and the record of its runs
sdkvars == <<events_api, async_utils, patch_log>>

\* what the program itself holds (no history variables, no call counter)
progvars == <<running, event_queue, unfinished_tasks, worker_threads, pc, item, attempt,
              last_error>>

Threads == 1..(workers * MaxStarts)
Items == 1..MaxItems

None == [kind |-> "None", n |-> 0]
\* the error raised by the n-th transport call made for an entry
TransportError(n) == [kind |-> "TransportError", n |-> n]
\* the error raised by the callback when called after the n-th transport call
CallbackError(n) == [kind |-> "CallbackError", n |-> n]
\* the value returned by the n-th transport call made for an entry
Result(n) == [kind |-> "Result", n |-> n]

Range(s) == {s[k] : k \in 1..Len(s)}

\* ---- the files of the SDK ----
\* A file is the sequence of its parts: "import" is an import line followed by
\* a blank line, "threading" the line `import threading`, "serialize_auth" a
\* method _events_post_serialize that ends with `_request_auth=_request_auth`
\* and a closing parenthesis, "serialize_plain" one that only has a line made
\* of a closing parenthesis, "without_preload" the method
\* events_post_without_preload_content, "events_post" the method events_post,
\* "async" the text of ASYNC_METHOD (def events_post_async), "other" any other text.
\* Every method part is whole: it holds the text its pattern of lines 284-299 ends on.
NoFile == <<"NoFile">>
\* what line 260 writes to ASYNC_UTILS_FILE
AsyncUtilsContent == <<"ASYNC_UTILS_CONTENT">>
Parts == {"import", "threading", "serialize_auth", "serialize_plain", "without_preload",
          "events_post", "async", "other"}
\* events_api.py of an SDK the script has patched: the processor runs in such an SDK
PatchedSdk == <<"import", "threading", "events_post", "serialize_auth", "async">>

Init ==
    /\ running = FALSE
    /\ event_queue = <<>>
    /\ unfinished_tasks = 0
    /\ worker_threads = <<>>
    /\ pc = [t \in Threads |-> "unborn"]
    /\ item = [t \in Threads |-> 0]
    /\ attempt = [t \in Threads |-> 0]
    /\ last_error = [t \in Threads |-> None]
    /\ lpc = "idle"
    /\ starts = 0
    /\ spawned = 0
    /\ calls = <<>>
    /\ last_submit = [event |-> "None", api_instance |-> "None", ret |-> FALSE]
    /\ transport_calls = [i \in Items |-> <<>>]
    /\ callback_calls = [i \in Items |-> <<>>]
    /\ busy_at_stop = {}
    /\ self_max_retries = max_retries
    /\ backoff = [t \in Threads |-> 0]
    /\ self_workers = workers
    /\ events_api = PatchedSdk
    /\ async_utils = AsyncUtilsContent
    /\ patch_log = <<>>

\* ---- queue.Queue as the processor uses it ----

\* Queue.put_nowait raises Full when maxsize > 0 and qsize() >= maxsize (line 161)
QueueFull(q) == max_queue_size > 0 /\ Len(q) >= max_queue_size

\* ---- submit_event (lines 140-166) ----

\* (mutant) only the event is validated
ValidInputs_EventOnly(event, api_instance) == event # "None"

\* the input validation of lines 154-159
ValidInputs(event, api_instance) == event # "None" /\ api_instance # "None"

\* the value submit_event returns: False for invalid inputs, False when put_nowait
\* raised (the except of line 164), True after a put
SubmitReturn(event, api_instance, q) ==
    IF ~ValidInputs(event, api_instance) THEN FALSE
    ELSE IF QueueFull(q) THEN FALSE
    ELSE TRUE

\* (mutant) the entry is put on a full queue all the same
SubmitQueue_IgnoresFull(event, api_instance, q, i) ==
    IF ValidInputs(event, api_instance) THEN Append(q, i) ELSE q

\* the entries put_nowait leaves in the queue (i: the entry this call would create)
SubmitQueue(event, api_instance, q, i) ==
    IF SubmitReturn(event, api_instance, q) THEN Append(q, i) ELSE q

\* the arguments the callers pass: valid with and without a callback, and each
\* invalid form with a callback supplied
SubmitArgs == {<<"event", "api", "callback">>, <<"event", "api", "None">>,
               <<"None", "api", "callback">>, <<"event", "None", "callback">>}

\* one call of submit_event, from any thread
submit_event ==
    \E args \in SubmitArgs :
      LET event == args[1]
          api_instance == args[2]
          callback == args[3]
          i == Len(calls) + 1
          ret == SubmitReturn(event, api_instance, event_queue)
      IN /\ ret => Len(calls) < MaxItems
         /\ event_queue' = SubmitQueue(event, api_instance, event_queue, i)
         /\ unfinished_tasks' = unfinished_tasks + (Len(event_queue') - Len(event_queue))
         /\ calls' = IF ret
                     THEN Append(calls, [event |-> event, api_instance |-> api_instance,
                                         callback |-> callback])
                     ELSE calls
         /\ last_submit' = [event |-> event, api_instance |-> api_instance, ret |-> ret]
         /\ UNCHANGED <<running, worker_threads, pc, item, attempt, last_error,
                        lpc, starts, spawned, transport_calls, callback_calls, busy_at_stop,
                   backoff, self_max_retries, self_workers, sdkvars>>

\* ---- start (lines 59-74) ----

\* (mutant) start() without its early return
AlreadyRunning_Unchecked == FALSE

\* the early return of lines 61-62
AlreadyRunning == running

\* the threads one start() creates, in creation order (lines 65-72)
NewThreads == [k \in 1..self_workers |-> spawned + k]

start ==
    /\ lpc = "idle"
    /\ starts < MaxStarts
    /\ starts' = starts + 1
    /\ IF AlreadyRunning
       THEN UNCHANGED <<running, worker_threads, pc, spawned>>
       ELSE /\ running' = TRUE
            /\ pc' = [t \in Threads |-> IF t \in Range(NewThreads) THEN "check" ELSE pc[t]]
            /\ worker_threads' = worker_threads \o NewThreads
            /\ spawned' = spawned + self_workers
    /\ UNCHANGED <<event_queue, unfinished_tasks, item, attempt, last_error,
                   lpc, calls, last_submit, transport_calls, callback_calls, busy_at_stop,
                   backoff, self_max_retries, self_workers, sdkvars>>

\* ---- stop (lines 76-81) ----

\* line 78; the joins of lines 79-80 follow
stop_begin ==
    /\ lpc = "idle"
    /\ running' = FALSE
    /\ lpc' = "stop_join"
    /\ busy_at_stop' = {<<t, item[t]>> : t \in {u \in Range(worker_threads) : item[u] # 0}}
    /\ UNCHANGED <<event_queue, unfinished_tasks, worker_threads, pc, item, attempt,
                   last_error, starts, spawned, calls, last_submit, transport_calls,
                   callback_calls,
                   backoff, self_max_retries, self_workers, sdkvars>>

\* thread.join(timeout=1.0) of line 80 returns when the thread has ended, or when
\* the timeout expires on a thread that is still alive
JoinReturns(t) == pc[t] = "exited" \/ pc[t] # "exited"

\* every join of lines 79-80 has returned; line 81 and the return
stop_return ==
    /\ lpc = "stop_join"
    /\ \A t \in Range(worker_threads) : JoinReturns(t)
    /\ worker_threads' = <<>>
    /\ lpc' = "idle"
    /\ busy_at_stop' = {}
    /\ UNCHANGED <<running, event_queue, unfinished_tasks, pc, item, attempt,
                   last_error, starts, spawned, calls, last_submit, transport_calls,
                   callback_calls,
                   backoff, self_max_retries, self_workers, sdkvars>>

\* ---- _process_queue (lines 83-106) ----

\* the callback of the entry a worker unpacked at line 97
CallbackOf(i) == calls[i].callback

\* line 85: the loop test; a worker that reads False leaves the loop and ends
process_queue_check(t) ==
    /\ pc[t] = "check"
    /\ pc' = [pc EXCEPT ![t] = IF running THEN "get" ELSE "exited"]
    /\ UNCHANGED <<running, event_queue, unfinished_tasks, worker_threads, item, attempt,
                   last_error, lpc, starts, spawned, calls, last_submit, transport_calls,
                   callback_calls, busy_at_stop,
                   backoff, self_max_retries, self_workers, sdkvars>>

\* Queue.get(block=True, timeout=0.5) of line 87 returns the oldest entry as soon
\* as the queue holds one
QueueGetReady(t) == pc[t] = "get" /\ event_queue # <<>>

\* (mutant) a poll that reads the oldest entry and leaves it in the queue
process_queue_get_Peek(t) ==
    /\ QueueGetReady(t)
    /\ item' = [item EXCEPT ![t] = Head(event_queue)]
    /\ attempt' = [attempt EXCEPT ![t] = 0]
    /\ last_error' = [last_error EXCEPT ![t] = None]
    /\ pc' = [pc EXCEPT ![t] = "send"]
    /\ UNCHANGED <<running, event_queue, unfinished_tasks, worker_threads, lpc, starts,
                   spawned, calls, last_submit, transport_calls, callback_calls, busy_at_stop,
                   backoff, self_max_retries, self_workers, sdkvars>>

\* line 87 returning an entry, lines 97-98 entering _process_event (lines 110-113:
\* attempt = 0, last_error = None, and 0 <= max_retries)
process_queue_get(t) ==
    /\ QueueGetReady(t)
    /\ item' = [item EXCEPT ![t] = Head(event_queue)]
    /\ event_queue' = Tail(event_queue)
    /\ attempt' = [attempt EXCEPT ![t] = 0]
    /\ last_error' = [last_error EXCEPT ![t] = None]
    /\ pc' = [pc EXCEPT ![t] = "send"]
    /\ UNCHANGED <<running, unfinished_tasks, worker_threads, lpc, starts,
                   spawned, calls, last_submit, transport_calls, callback_calls, busy_at_stop,
                   backoff, self_max_retries, self_workers, sdkvars>>

\* (mutant) a worker that ends on an empty poll instead of polling again
process_queue_empty_Exits(t) ==
    /\ pc[t] = "get"
    /\ event_queue = <<>>
    /\ pc' = [pc EXCEPT ![t] = "exited"]
    /\ UNCHANGED <<running, event_queue, unfinished_tasks, worker_threads, item, attempt,
                   last_error, lpc, starts, spawned, calls, last_submit, transport_calls,
                   callback_calls, busy_at_stop,
                   backoff, self_max_retries, self_workers, sdkvars>>

\* line 87 raising Empty after the timeout on an empty queue (lines 100-102)
process_queue_empty(t) ==
    /\ pc[t] = "get"
    /\ event_queue = <<>>
    /\ pc' = [pc EXCEPT ![t] = "check"]
    /\ UNCHANGED <<running, event_queue, unfinished_tasks, worker_threads, item, attempt,
                   last_error, lpc, starts, spawned, calls, last_submit, transport_calls,
                   callback_calls, busy_at_stop,
                   backoff, self_max_retries, self_workers, sdkvars>>

\* ---- _process_event (lines 108-138) ----

\* (mutant) one attempt too few
RetryAllowed_OffByOne(a) == a < max_retries

\* (mutant) a retry loop that gives up once the processor is stopped
RetryAllowed_WhileRunning(a) == a <= max_retries /\ running

\* line 113: the loop test
RetryAllowed(a) == a <= self_max_retries

\* the error the except of line 130 stores after a failure raising e
RecordError(old, e) == e

\* the callback is called at line 125, and again at lines 137-138, when one was given
CallbackGiven(callback) == callback # "None"

\* (mutant) an exception out of _process_event that ends the worker thread
Finish_Dies(t, returned) ==
    /\ pc' = [pc EXCEPT ![t] = IF returned THEN "check" ELSE "exited"]
    /\ item' = [item EXCEPT ![t] = 0]
    /\ attempt' = [attempt EXCEPT ![t] = 0]
    /\ last_error' = [last_error EXCEPT ![t] = None]
    /\ unfinished_tasks' = IF returned THEN unfinished_tasks - 1 ELSE unfinished_tasks

\* the worker is back in _process_queue with the entry finished: task_done of
\* line 99 when _process_event returned, none when it raised (line 103)
Finish(t, returned) ==
    /\ pc' = [pc EXCEPT ![t] = "check"]
    /\ item' = [item EXCEPT ![t] = 0]
    /\ attempt' = [attempt EXCEPT ![t] = 0]
    /\ last_error' = [last_error EXCEPT ![t] = None]
    /\ unfinished_tasks' = IF returned THEN unfinished_tasks - 1 ELSE unfinished_tasks

\* One iteration of the loop of lines 113-133, with lines 135-138 when it was
\* the last: the backoff sleep when attempt > 0, the transport call (it returns
\* a result or raises), the callback called with the result (it returns or
\* raises, inside the try of line 114), the except of lines 129-133, and after
\* the last failure the callback called with the last error (it returns, or it
\* raises out of _process_event into the except of line 103).
process_event(t) ==
    /\ pc[t] = "send"
    /\ \E ok \in BOOLEAN, raises \in BOOLEAN, raises_last \in BOOLEAN :
         LET i == item[t]
             n == Len(transport_calls[i]) + 1
             given == CallbackGiven(CallbackOf(i))
             called == ok /\ given
             failed == ~ok \/ (called /\ raises)
             e == RecordError(last_error[t],
                              IF ok THEN CallbackError(n) ELSE TransportError(n))
             a == attempt[t] + 1
             exhausted == failed /\ ~RetryAllowed(a)
             on_success == IF called
                           THEN <<[result |-> Result(n), error |-> None, success |-> TRUE]>>
                           ELSE <<>>
             on_failure == IF exhausted /\ given
                           THEN <<[result |-> None, error |-> e, success |-> FALSE]>>
                           ELSE <<>>
         IN /\ (~called => ~raises)
            /\ (~(exhausted /\ given) => ~raises_last)
            /\ transport_calls' = [transport_calls EXCEPT ![i] = Append(@, ok)]
            /\ callback_calls' = [callback_calls EXCEPT ![i] = @ \o on_success \o on_failure]
            /\ IF failed /\ ~exhausted
               THEN /\ attempt' = [attempt EXCEPT ![t] = a]
                    /\ last_error' = [last_error EXCEPT ![t] = e]
                    /\ UNCHANGED <<pc, item, unfinished_tasks>>
               ELSE Finish(t, ~raises_last)
    /\ backoff' = [backoff EXCEPT ![t] = 0]
    /\ UNCHANGED <<running, event_queue, worker_threads, lpc, starts, spawned, calls, last_submit,
                   busy_at_stop, self_max_retries, self_workers, sdkvars>>

\* ---- the backoff of lines 116-119 ----
\* Durations are counted in ticks of 1 / (2 * JitterQuanta) seconds, which makes
\* them integers: with random.random() = k / JitterQuanta the factor
\* 0.5 + random.random() is (JitterQuanta + 2 * k) ticks for every second.

\* (mutant) a backoff that grows by retry_delay with every retry
BackoffDelay_Linear(a, k) == retry_delay * a * (JitterQuanta + 2 * k)

\* (mutant) a backoff that starts at twice retry_delay
BackoffDelay_Late(a, k) == retry_delay * (2 ^ a) * (JitterQuanta + 2 * k)

\* lines 117-118: the delay before the transport call of attempt a >= 1, in ticks
BackoffDelay(a, k) == retry_delay * (2 ^ (a - 1)) * (JitterQuanta + 2 * k)

\* lines 116-119 taken as a step of their own: a worker about to retry
\* (attempt > 0) computes the delay and enters time.sleep(delay)
backoff_sleep(t) ==
    /\ pc[t] = "send"
    /\ attempt[t] > 0
    /\ backoff[t] = 0
    /\ \E k \in 0..(JitterQuanta - 1) :
         backoff' = [backoff EXCEPT ![t] = BackoffDelay(attempt[t], k)]
    /\ UNCHANGED <<running, event_queue, unfinished_tasks, worker_threads, pc, item, attempt,
                   last_error, lpc, starts, spawned, calls, last_submit, transport_calls,
                   callback_calls, busy_at_stop, self_max_retries, self_workers, sdkvars>>

\* the rest of the iteration (lines 121-133, and 135-138 after the last one):
\* the first attempt is made at once, a retry when the sleep of line 119 is over
backoff_attempt(t) ==
    /\ attempt[t] > 0 => backoff[t] # 0
    /\ process_event(t)

\* one step of worker thread t
worker(t) ==
    \/ process_queue_check(t)
    \/ process_queue_get(t)
    \/ process_queue_empty(t)
    \/ process_event(t)

Next ==
    \/ submit_event
    \/ start
    \/ stop_begin
    \/ stop_return
    \/ \E t \in Threads : process_queue_check(t)
    \/ \E t \in Threads : process_queue_get(t)
    \/ \E t \in Threads : process_queue_empty(t)
    \/ \E t \in Threads : process_event(t)

Spec == Init /\ [][Next]_vars

\* The runs liveness is checked on.  A rejected submit_event call changes no
\* program state (only the record of the latest call), so leaving the rejected
\* calls out removes no behaviour of the processor.
submit_event_accepted == submit_event /\ last_submit'.ret

LiveNext ==
    \/ submit_event_accepted
    \/ start
    \/ stop_begin
    \/ stop_return
    \/ \E t \in Threads : process_queue_check(t)
    \/ \E t \in Threads : process_queue_get(t)
    \/ \E t \in Threads : process_queue_empty(t)
    \/ \E t \in Threads : process_event(t)

\* Worker threads are scheduled by the operating system, and transport calls,
\* callbacks and sleeps return: a live worker keeps taking steps.
LiveSpec == Init /\ [][LiveNext]_vars /\ \A t \in Threads : WF_vars(worker(t))

\* The retry loop with the backoff sleep as a step of its own, for processors
\* constructed with max_retries from 0 to BackoffRetries.  It starts after
\* start() and `workers` accepted submit_event calls, when each worker has
\* dequeued one entry and is at line 113 with attempt = 0.
BackoffInit ==
    /\ running = TRUE
    /\ event_queue = <<>>
    /\ unfinished_tasks = workers
    /\ worker_threads = [k \in 1..workers |-> k]
    /\ pc = [t \in Threads |-> IF t <= workers THEN "send" ELSE "unborn"]
    /\ item = [t \in Threads |-> IF t <= workers THEN t ELSE 0]
    /\ attempt = [t \in Threads |-> 0]
    /\ last_error = [t \in Threads |-> None]
    /\ lpc = "idle"
    /\ starts = 1
    /\ spawned = workers
    /\ calls \in [1..workers -> {[event |-> "event", api_instance |-> "api", callback |-> c] :
                                   c \in {"callback", "None"}}]
    /\ last_submit = [event |-> "event", api_instance |-> "api", ret |-> TRUE]
    /\ transport_calls = [i \in Items |-> <<>>]
    /\ callback_calls = [i \in Items |-> <<>>]
    /\ busy_at_stop = {}
    /\ self_max_retries \in 0..BackoffRetries
    /\ backoff = [t \in Threads |-> 0]
    /\ self_workers = workers
    /\ events_api = PatchedSdk
    /\ async_utils = AsyncUtilsContent
    /\ patch_log = <<>>

BackoffNext ==
    \/ \E t \in Threads : backoff_sleep(t)
    \/ \E t \in Threads : backoff_attempt(t)

BackoffSpec == BackoffInit /\ [][BackoffNext]_vars

\* A processor constructed with workers = 1 (line 42 gives the parameter),
\* before its first start(); the operations are those of Spec.
SingleWorkerInit ==
    /\ running = FALSE
    /\ event_queue = <<>>
    /\ unfinished_tasks = 0
    /\ worker_threads = <<>>
    /\ pc = [t \in Threads |-> "unborn"]
    /\ item = [t \in Threads |-> 0]
    /\ attempt = [t \in Threads |-> 0]
    /\ last_error = [t \in Threads |-> None]
    /\ lpc = "idle"
    /\ starts = 0
    /\ spawned = 0
    /\ calls = <<>>
    /\ last_submit = [event |-> "None", api_instance |-> "None", ret |-> FALSE]
    /\ transport_calls = [i \in Items |-> <<>>]
    /\ callback_calls = [i \in Items |-> <<>>]
    /\ busy_at_stop = {}
    /\ self_max_retries = max_retries
    /\ backoff = [t \in Threads |-> 0]
    /\ self_workers = 1
    /\ events_api = PatchedSdk
    /\ async_utils = AsyncUtilsContent
    /\ patch_log = <<>>

SingleWorkerSpec == SingleWorkerInit /\ [][Next]_vars

\* ---- add_async_functionality (lines 250-318) ----

\* the index of the first part of content that is in S (0: there is none)
FirstIndex(content, S) ==
    IF \E k \in 1..Len(content) : content[k] \in S
    THEN CHOOSE k \in 1..Len(content) :
            /\ content[k] \in S
            /\ \A m \in 1..(k - 1) : content[m] \notin S
    ELSE 0

\* content[:k] + part + content[k:], k counted in parts
InsertAfter(content, k, part) ==
    SubSeq(content, 1, k) \o <<part>> \o SubSeq(content, k + 1, Len(content))

\* (mutant) a run that does not look for the method
HasAsyncMethod_Unchecked(content) == FALSE

\* line 270: 'def events_post_async(' in content
HasAsyncMethod(content) == \E k \in 1..Len(content) : content[k] = "async"

\* lines 275-281: re.sub with count=1 puts `import threading` after the first
\* import line that a blank line follows, when the file does not have it yet
AddThreadingImport(content) ==
    IF \E k \in 1..Len(content) : content[k] = "threading"
    THEN content
    ELSE LET k == FirstIndex(content, {"import"})
         IN IF k = 0 THEN content ELSE InsertAfter(content, k, "threading")

\* lines 284-299: the end of the first match of the first pattern that matches
\* (0: last_method_match is None)
InsertPosition(content) ==
    LET auth == FirstIndex(content, {"serialize_auth"})
        plain == FirstIndex(content, {"serialize_plain"})
        without_preload == FirstIndex(content, {"without_preload"})
        events_post == FirstIndex(content, {"events_post"})
    IN IF auth # 0 THEN auth
       ELSE IF plain # 0 THEN plain
       ELSE IF without_preload # 0 THEN without_preload
       ELSE events_post

\* one run of the script
add_async_functionality ==
    /\ Len(patch_log) < MaxRuns
    /\ IF events_api = NoFile
       THEN /\ patch_log' = Append(patch_log, [ret |-> FALSE, wrote |-> FALSE])
            /\ UNCHANGED <<events_api, async_utils>>
       ELSE /\ async_utils' = AsyncUtilsContent
            /\ IF HasAsyncMethod(events_api)
               THEN /\ patch_log' = Append(patch_log, [ret |-> TRUE, wrote |-> FALSE])
                    /\ UNCHANGED events_api
               ELSE LET content == AddThreadingImport(events_api)
                        insert_position == InsertPosition(content)
                    IN IF insert_position # 0
                       THEN /\ events_api' = InsertAfter(content, insert_position, "async")
                            /\ patch_log' = Append(patch_log, [ret |-> TRUE, wrote |-> TRUE])
                       ELSE /\ patch_log' = Append(patch_log, [ret |-> FALSE, wrote |-> FALSE])
                            /\ UNCHANGED events_api
    /\ UNCHANGED <<running, event_queue, unfinished_tasks, worker_threads, pc, item, attempt,
                   last_error, lpc, starts, spawned, calls, last_submit, transport_calls,
                   callback_calls, busy_at_stop, self_max_retries, backoff, self_workers>>

\* the files the script may find: events_api.py missing, or any text of up to
\* MaxParts parts; no processor of the SDK is in use while the script runs
PatchInit ==
    /\ running = FALSE
    /\ event_queue = <<>>
    /\ unfinished_tasks = 0
    /\ worker_threads = <<>>
    /\ pc = [t \in Threads |-> "unborn"]
    /\ item = [t \in Threads |-> 0]
    /\ attempt = [t \in Threads |-> 0]
    /\ last_error = [t \in Threads |-> None]
    /\ lpc = "idle"
    /\ starts = 0
    /\ spawned = 0
    /\ calls = <<>>
    /\ last_submit = [event |-> "None", api_instance |-> "None", ret |-> FALSE]
    /\ transport_calls = [i \in Items |-> <<>>]
    /\ callback_calls = [i \in Items |-> <<>>]
    /\ busy_at_stop = {}
    /\ self_max_retries = max_retries
    /\ backoff = [t \in Threads |-> 0]
    /\ self_workers = workers
    /\ events_api \in {NoFile} \cup UNION {[1..n -> Parts] : n \in 0..MaxParts}
    /\ async_utils \in {NoFile, AsyncUtilsContent}
    /\ patch_log = <<>>

PatchNext == add_async_functionality

PatchSpec == PatchInit /\ [][PatchNext]_vars

\* ---- what the claims speak about ----

Accepted(i) == i <= Len(calls)
Queued(i) == i \in Range(event_queue)
HeldBy(t, i) == item[t] = i
InFlight(i) == \E t \in Threads : HeldBy(t, i)
\* the entry was accepted, dequeued, and its worker is done with it
Finished(i) == Accepted(i) /\ ~Queued(i) /\ ~InFlight(i)
\* the retry sequence ran to its end: the last transport call succeeded, or
\* max_retries + 1 calls were made
FinalAttemptMade(i) ==
    /\ transport_calls[i] # <<>>
    /\ \/ transport_calls[i][Len(transport_calls[i])]
       \/ Len(transport_calls[i]) = max_retries + 1
Completed(i) ==
    /\ Finished(i)
    /\ FinalAttemptMade(i)
    /\ CallbackGiven(CallbackOf(i)) => callback_calls[i] # <<>>

\* C1: for every accepted entry with a callback, the callback is invoked at most
\* once over the whole run (never twice, by one worker or by two), whatever the
\* transport and the callback do.
C1_CallbackAtMostOnce ==
    \A i \in Items : Len(callback_calls[i]) <= 1

\* C2: while the processor stays Running and workers are scheduled fairly, every
\* accepted entry is eventually dequeued and processed to completion: its final
\* attempt is made and its callback, if any, is invoked.
C2_AcceptedEventuallyProcessed ==
    \A i \in Items : (Accepted(i) /\ running) ~> (Completed(i) \/ ~running)

\* C2 witness: an entry that waited in the queue behind another one has been
\* processed to completion while the processor is Running.
C2_Witness ==
    running /\ Len(calls) >= 2 /\ Completed(2) /\ transport_calls[2] = <<FALSE, TRUE>>

\* a step in which submit_event was called and returned
SubmitCalled == last_submit' # last_submit \/ calls' # calls
\* a submit_event call that left the queue, the workers and the histories alone
NothingEnqueued ==
    UNCHANGED <<event_queue, unfinished_tasks, calls, pc, item, attempt, last_error,
                transport_calls, callback_calls, running, worker_threads,
                backoff, self_max_retries, self_workers, sdkvars>>
\* every entry that is queued, held or was ever sent or reported was accepted
OnlyAcceptedEntries ==
    \A i \in Items :
        (Queued(i) \/ InFlight(i) \/ transport_calls[i] # <<>> \/ callback_calls[i] # <<>>)
            => Accepted(i)

\* C3: when the queue holds max_queue_size entries, submit_event (valid inputs
\* included) returns False, leaves the queue unchanged, and creates no entry, so
\* no transport call or callback invocation happens for the rejected submission.
C3_FullQueueRejects ==
    /\ []OnlyAcceptedEntries
    /\ [][(SubmitCalled /\ Len(event_queue) = max_queue_size)
            => (~last_submit'.ret /\ NothingEnqueued)]_vars

\* C3 witness: a valid submission was rejected on a full queue.
C3_Witness ==
    /\ last_submit.event # "None" /\ last_submit.api_instance # "None"
    /\ ~last_submit.ret
    /\ Len(event_queue) = max_queue_size

\* C4: submit_event with event = None or api_instance = None returns False,
\* enqueues nothing and creates no entry (so no callback is ever invoked for it),
\* whether the processor is Running or Stopped and the queue empty or full.
C4_InvalidInputsRejected ==
    /\ []OnlyAcceptedEntries
    /\ [][(SubmitCalled /\ (last_submit'.event = "None" \/ last_submit'.api_instance = "None"))
            => (~last_submit'.ret /\ NothingEnqueued)]_vars

\* C4 witness: a submission without api_instance was rejected by a Running
\* processor whose queue still has room.
C4_Witness ==
    /\ last_submit.event # "None" /\ last_submit.api_instance = "None"
    /\ ~last_submit.ret
    /\ running
    /\ Len(event_queue) < max_queue_size

AllFailed(i) == \A k \in 1..Len(transport_calls[i]) : ~transport_calls[i][k]
AllSucceeded(i) == \A k \in 1..Len(transport_calls[i]) : transport_calls[i][k]

\* C5: for an accepted entry whose transport call fails on every attempt, the
\* worker makes exactly max_retries + 1 transport calls and then invokes the
\* callback once, with success=False, result=None and the error raised by the
\* last attempt.
C5_ExhaustedRetries ==
    \A i \in Items : AllFailed(i) =>
        /\ Len(transport_calls[i]) <= max_retries + 1
        /\ Finished(i) => Len(transport_calls[i]) = max_retries + 1
        /\ (Finished(i) /\ CallbackGiven(CallbackOf(i))) => callback_calls[i] # <<>>
        /\ callback_calls[i] # <<>> =>
             /\ Len(transport_calls[i]) = max_retries + 1
             /\ callback_calls[i] = <<[result |-> None,
                                       error |-> TransportError(max_retries + 1),
                                       success |-> FALSE]>>

\* C5 witness: an entry with a callback is finished and every transport call failed.
C5_Witness ==
    \E i \in Items :
        Finished(i) /\ AllFailed(i) /\ CallbackGiven(CallbackOf(i))
            /\ Len(callback_calls[i]) = 1

\* the transport failed k times and then succeeded
FailsThenSucceeds(i, k) ==
    /\ Len(transport_calls[i]) >= k + 1
    /\ \A j \in 1..k : ~transport_calls[i][j]
    /\ transport_calls[i][k + 1]

\* C6: for an accepted entry whose transport fails k times and then succeeds,
\* k < max_retries, exactly k + 1 transport calls are made and the callback
\* receives success=True, error=None and the result of the successful call.
C6_FailKThenSucceed ==
    \A i \in Items : \A k \in 0..(max_retries - 1) :
        (Finished(i) /\ FailsThenSucceeds(i, k)) =>
            /\ Len(transport_calls[i]) = k + 1
            /\ CallbackGiven(CallbackOf(i)) =>
                 callback_calls[i] = <<[result |-> Result(k + 1), error |-> None,
                                        success |-> TRUE]>>

\* C7: with a transport that always succeeds, every accepted entry gets exactly
\* one callback invocation, with success=True: none lost, none duplicated, and no
\* entry is held by two workers.
C7_ConcurrentSubmits ==
    (\A i \in Items : AllSucceeded(i)) =>
        /\ \A t, u \in Threads : (t # u /\ item[t] # 0) => item[t] # item[u]
        /\ \A i \in Items : CallbackGiven(IF Accepted(i) THEN CallbackOf(i) ELSE "None") =>
             /\ Len(callback_calls[i]) <= 1
             /\ \A k \in 1..Len(callback_calls[i]) : callback_calls[i][k].success
             /\ Finished(i) => Len(callback_calls[i]) = 1

\* C8: after stop() has set _running to False no worker dequeues a further
\* entry: every dequeue happens while the processor is Running.
C8_NoDequeueAfterStop ==
    [][\A t \in Threads : (item[t] = 0 /\ item'[t] # 0) => running]_vars

\* the step in which stop() returns
StopReturns == lpc = "stop_join" /\ lpc' = "idle"

\* C9 as stated: a worker that held an entry when stop() was called has finished
\* the entry and left its loop by the time stop() returns from joining it.
C9_FinishedWhenStopReturns ==
    [][StopReturns =>
         \A b \in busy_at_stop : Completed(b[2]) /\ pc[b[1]] = "exited"]_vars

\* C9 amended: stop() does not cancel work in flight.  No step of stop() changes
\* a worker's position, entry or attempt count, and an entry a worker holds while
\* the processor is Stopped still runs its retry sequence to the end (the last
\* call succeeds or max_retries + 1 calls are made) and gets its callback invoked;
\* stop() itself waits for the worker only up to the join timeout.
C9_InFlightCompletes ==
    /\ [][lpc' # lpc => UNCHANGED <<pc, item, attempt, last_error, event_queue>>]_vars
    /\ \A i \in Items : (InFlight(i) /\ ~running) ~> Completed(i)

\* C9 witness: stop() is still joining, and an entry that a worker held when
\* stop() was called has since had all its max_retries + 1 attempts and its callback.
C9_Witness ==
    /\ lpc = "stop_join"
    /\ \E b \in busy_at_stop :
         /\ Completed(b[2])
         /\ Len(transport_calls[b[2]]) = max_retries + 1
         /\ callback_calls[b[2]] # <<>>

StoppedIdle == lpc = "idle" /\ ~running

\* C10: start() while Running spawns no worker and changes no state; stop()
\* while Stopped changes no state (there is no thread left to join, and neither
\* line 78 nor line 81 changes anything).
C10_LifecycleIdempotent ==
    /\ [](StoppedIdle => worker_threads = <<>>)
    /\ [][(starts' # starts /\ running) => UNCHANGED <<progvars, spawned>>]_vars
    /\ [][(StoppedIdle /\ lpc' # lpc) => UNCHANGED <<progvars, spawned>>]_vars
    /\ [][(StopReturns /\ worker_threads = <<>>) => UNCHANGED <<progvars, spawned>>]_vars

\* C10 witness: start() was called twice in a row (one set of workers spawned),
\* and a stop() called while Stopped is in progress.
C10_Witness ==
    /\ starts = 2 /\ spawned = workers
    /\ lpc = "stop_join" /\ worker_threads = <<>>

\* the workers that hold an entry
Busy == {t \in Threads : item[t] # 0}
\* the threads that are in the loop of _process_queue
Live == {t \in Threads : pc[t] \in {"check", "get", "send"}}

Sleeping(t, a) == pc[t] = "send" /\ attempt[t] = a /\ backoff[t] # 0
\* a step in which worker t makes a transport call
TransportCallBy(t) ==
    item[t] # 0 /\ transport_calls'[item[t]] # transport_calls[item[t]]

\* C12 (as stated): for an entry whose transport always fails, the delay before
\* the N-th retry lies within [0.5, 1.5] * retry_delay * 2^(N-2), for N from 1
\* to max_retries.  (Both sides are doubled to stay in the integers.)
C12_DelayHalved ==
    \A t \in Threads : \A N \in 1..self_max_retries :
        (Sleeping(t, N) /\ AllFailed(item[t]))
            => /\ JitterQuanta * retry_delay * (2 ^ (N - 1)) <= 2 * backoff[t]
               /\ 2 * backoff[t] <= 3 * JitterQuanta * retry_delay * (2 ^ (N - 1))

\* C12 (amended): for an entry whose transport always fails, a retry is made
\* only for N from 1 to max_retries, and the delay before the N-th retry lies
\* within [0.5, 1.5] * retry_delay * 2^(N-1).
C12_DelayRange ==
    \A t \in Threads : \A N \in 1..BackoffRetries :
        (Sleeping(t, N) /\ AllFailed(item[t]))
            => /\ N <= self_max_retries
               /\ Len(transport_calls[item[t]]) = N
               /\ JitterQuanta * retry_delay * (2 ^ (N - 1)) <= backoff[t]
               /\ backoff[t] <= 3 * JitterQuanta * retry_delay * (2 ^ (N - 1))

\* C12 witness: after three failed transport calls the worker waits the longest
\* delay the third retry can have.
C12_Witness ==
    \E t \in Threads :
        /\ Sleeping(t, 3) /\ transport_calls[item[t]] = <<FALSE, FALSE, FALSE>>
        /\ backoff[t] = retry_delay * 4 * (3 * JitterQuanta - 2)

\* C15: the first transport attempt of an entry is made with no delay; before
\* each later attempt with 0-based index a >= 1 the worker waits
\* retry_delay * 2^(a-1) * j with j in [0.5, 1.5); and the worker makes no
\* transport call for the entry during that wait.
C15_BackoffSchedule ==
    /\ [](\A t \in Threads : backoff[t] # 0
            => /\ pc[t] = "send" /\ attempt[t] >= 1
               /\ JitterQuanta * retry_delay * (2 ^ (attempt[t] - 1)) <= backoff[t]
               /\ backoff[t] < 3 * JitterQuanta * retry_delay * (2 ^ (attempt[t] - 1)))
    /\ [][\A t \in Threads : TransportCallBy(t)
            => /\ attempt[t] = 0 <=> backoff[t] = 0
               /\ backoff'[t] = 0]_vars
    /\ [][\A t \in Threads : backoff'[t] # 0
            => (item'[t] = item[t] /\ ~TransportCallBy(t))]_vars

\* C15 witness: a worker is in the wait before its third retry, four times as
\* long as the shortest wait before the first (jitter factor 0.5), while the
\* other worker makes the first attempt of its own entry.
C15_Witness ==
    \E t, u \in Threads :
        /\ Sleeping(t, 3) /\ Len(transport_calls[item[t]]) = 3
        /\ backoff[t] = 4 * (retry_delay * JitterQuanta)
        /\ pc[u] = "send" /\ attempt[u] = 0 /\ transport_calls[item[u]] = <<>>

\* C13: once a transport call for an entry has succeeded, no further transport
\* call is made for it (a success is the last call made for its entry).
C13_NoCallAfterSuccess ==
    \A i \in Items : \A k \in 1..Len(transport_calls[i]) :
        transport_calls[i][k] => k = Len(transport_calls[i])

\* C14: every callback invocation is consistently tagged: success=True comes
\* with error=None and the result of a transport call that succeeded;
\* success=False comes with result=None and the error the transport raised on
\* the last attempt, and only when all max_retries + 1 transport calls failed.
C14_ConsistentTags ==
    \A i \in Items : \A k \in 1..Len(callback_calls[i]) :
        LET c == callback_calls[i][k]
        IN IF c.success
           THEN /\ c.error = None
                /\ \E n \in 1..Len(transport_calls[i]) :
                     transport_calls[i][n] /\ c.result = Result(n)
           ELSE /\ c.result = None
                /\ c.error = TransportError(max_retries + 1)
                /\ Len(transport_calls[i]) = max_retries + 1
                /\ AllFailed(i)

\* C16: per-worker processing is serial.  A worker holds an entry exactly while
\* it is in _process_event, leaves it only finished (it never swaps one entry
\* for another), no entry is held by two workers or is queued again, and every
\* transport call for an entry is made by the worker holding it.
C16_SerialPerWorker ==
    /\ [](\A t \in Threads : item[t] # 0 <=> pc[t] = "send")
    /\ [](\A t, u \in Threads : (t # u /\ item[t] # 0) => item[t] # item[u])
    /\ [](\A i \in Items : Queued(i) => (~InFlight(i) /\ transport_calls[i] = <<>>))
    /\ [][\A t \in Threads : (item[t] # 0 /\ item'[t] # item[t]) => item'[t] = 0]_vars
    /\ [][\A i \in Items : transport_calls'[i] # transport_calls[i]
             => \E t \in Threads : item[t] = i /\ pc[t] = "send"]_vars
    /\ [][\A i \in Items : (Accepted(i) /\ ~Queued(i)) => ~Queued(i)']_vars

\* C16 witness: two workers each hold their own entry, one of them in a retry.
C16_Witness ==
    \E t, u \in Threads :
        /\ item[t] # 0 /\ item[u] # 0 /\ item[t] # item[u]
        /\ attempt[t] = 1 /\ attempt[u] = 0

\* C17: the queue never holds more than max_queue_size entries, and
\* submit_event returns True exactly when the call added one entry to it.
C17_BoundedQueue ==
    /\ [](Len(event_queue) <= max_queue_size)
    /\ [][SubmitCalled =>
            /\ last_submit'.ret <=> Len(event_queue') = Len(event_queue) + 1
            /\ ~last_submit'.ret <=> event_queue' = event_queue]_vars

\* C17 witness: with the workers started, a submission returned True and
\* filled the queue to max_queue_size.
C17_Witness ==
    /\ last_submit.ret
    /\ Len(event_queue) = max_queue_size
    /\ running /\ spawned = workers

\* C18: after any sequence of start() and stop() calls, the number of live
\* worker threads polling or processing never exceeds `workers`.
C18_AtMostWorkersLive ==
    Cardinality(Live) <= workers

\* C19: start() and stop() never add, remove or reorder queue entries;
\* submit_event accepts a valid entry whenever the queue has room, Running or
\* Stopped; and entries in the queue while the processor is Stopped stay queued
\* (until a later start()).
C19_QueueUntouchedByLifecycle ==
    /\ [][(starts' # starts \/ lpc' # lpc) => UNCHANGED event_queue]_vars
    /\ [][(SubmitCalled /\ last_submit'.event # "None" /\ last_submit'.api_instance # "None"
             /\ Len(event_queue) < max_queue_size) => last_submit'.ret]_vars
    /\ [][~running => \A i \in Items : Queued(i) => Queued(i)']_vars

\* C20: task_done() is called exactly once for every entry a worker dequeued,
\* so unfinished_tasks always equals the number of entries queued plus the
\* number being processed (and is 0 once every accepted entry is finished).
C20_BalancedTaskDone ==
    unfinished_tasks = Len(event_queue) + Cardinality(Busy)

\* C21: entries are dequeued in the order in which they were accepted (the
\* queue is in acceptance order, and an entry that left it did so after every
\* entry accepted before it); with workers = 1 the callbacks of accepted
\* entries are therefore invoked in submission order: when the callback of an
\* entry is invoked, every earlier entry that has a callback is finished.
C21_FifoAndSubmissionOrder ==
    /\ \A k \in 1..(Len(event_queue) - 1) : event_queue[k] < event_queue[k + 1]
    /\ \A i, j \in 1..Len(calls) : (i < j /\ Queued(i)) => Queued(j)
    /\ self_workers = 1 =>
         \A i, j \in 1..Len(calls) :
            (i < j /\ CallbackGiven(CallbackOf(i)) /\ callback_calls[j] # <<>>)
                => (callback_calls[i] # <<>> /\ ~InFlight(i))

\* a step that is one run of add_async_functionality, and what the run reported
PatchRun == patch_log' # patch_log
LastRun == patch_log'[Len(patch_log')]

\* C22: once events_api.py contains the events_post_async method, any further
\* run of add_async_functionality returns True and leaves events_api.py
\* unchanged; a run changes the file only by inserting the method into a file
\* that did not have it, so the method is inserted at most once over all runs.
C22_PatchIdempotent ==
    /\ [][(PatchRun /\ "async" \in Range(events_api))
            => (LastRun.ret /\ ~LastRun.wrote /\ events_api' = events_api)]_vars
    /\ [][events_api' # events_api
            => /\ PatchRun /\ LastRun.ret /\ LastRun.wrote
               /\ "async" \notin Range(events_api)
               /\ Cardinality({k \in 1..Len(events_api') : events_api'[k] = "async"}) = 1]_vars
    /\ [](Cardinality({k \in 1..Len(patch_log) : patch_log[k].wrote}) <= 1)

\* C22 witness: the first run inserted the method (and the threading import),
\* and the two runs after it returned True without writing the file.
C22_Witness ==
    /\ Len(patch_log) = 3
    /\ patch_log[1] = [ret |-> TRUE, wrote |-> TRUE]
    /\ patch_log[2] = [ret |-> TRUE, wrote |-> FALSE]
    /\ patch_log[3] = [ret |-> TRUE, wrote |-> FALSE]
    /\ "threading" \in Range(events_api)
    /\ Cardinality({k \in 1..Len(events_api) : events_api[k] = "async"}) = 1

====
